---- MODULE Spec2Model ----
(***************************************************************************)
(* A model of MCP.py: the path confinement resolver (_safe_path), the     *)
(* filesystem handlers (list_dir, read_file), the query handler            *)
(* (query_db), the dataset initializer (_ensure_db) and the bootstrap      *)
(* (main).  Text is a sequence of one-character strings; a path is a       *)
(* sequence of component names.                                            *)
(***************************************************************************)
EXTENDS Integers, Sequences, FiniteSets, TLC

VARIABLES
    store,      \* the backing store file mcp_example.db, as it is on disk
    pc,         \* where the server process is: down, in _ensure_db, serving
    txn,        \* rows inserted by _ensure_db's connection and not yet committed
    initRuns,   \* how many times this run has entered _ensure_db
    tasks,      \* the query_db invocations in flight, one per slot
    resp        \* the response of a synchronous handler (list_dir, read_file), until sent

vars == <<store, pc, txn, initRuns, tasks, resp>>

(***************************************************************************)
(* Bounds of the model.                                                    *)
(***************************************************************************)
MaxTasks == 2
MaxPathLen == 3

Slots == 1..MaxTasks

\* an optional argument: <<>> when the caller omits it, <<v>> when given
NoArg == <<>>

(***************************************************************************)
(* Text: str.lower, str.strip, str.startswith, the in operator,            *)
(* str.rstrip(';') and the decimal formatting of an int in an f-string.    *)
(***************************************************************************)
Uppers ==
    <<"A","B","C","D","E","F","G","H","I","J","K","L","M",
      "N","O","P","Q","R","S","T","U","V","W","X","Y","Z">>

Lowers ==
    <<"a","b","c","d","e","f","g","h","i","j","k","l","m",
      "n","o","p","q","r","s","t","u","v","w","x","y","z">>

Digits == <<"0","1","2","3","4","5","6","7","8","9">>

Range(s) == {s[i] : i \in DOMAIN s}

LowerChar(c) ==
    IF \E i \in DOMAIN Uppers : Uppers[i] = c
    THEN Lowers[CHOOSE i \in DOMAIN Uppers : Uppers[i] = c]
    ELSE c

Lower(s) == [i \in DOMAIN s |-> LowerChar(s[i])]

IsSpace(c) == c \in {" ", "\t", "\n", "\r"}

RECURSIVE LStrip(_)
LStrip(s) ==
    IF s # <<>> /\ IsSpace(Head(s)) THEN LStrip(Tail(s)) ELSE s

RECURSIVE RStrip(_)
RStrip(s) ==
    IF s # <<>> /\ IsSpace(s[Len(s)]) THEN RStrip(SubSeq(s, 1, Len(s) - 1)) ELSE s

Strip(s) == RStrip(LStrip(s))

StartsWith(s, prefix) ==
    /\ Len(s) >= Len(prefix)
    /\ SubSeq(s, 1, Len(prefix)) = prefix

Contains(s, sub) ==
    \E k \in 0..(Len(s) - Len(sub)) : SubSeq(s, k + 1, k + Len(sub)) = sub

RECURSIVE RStripSemis(_)
RStripSemis(s) ==
    IF s # <<>> /\ s[Len(s)] = ";" THEN RStripSemis(SubSeq(s, 1, Len(s) - 1)) ELSE s

RECURSIVE NatToStr(_)
NatToStr(n) ==
    IF n < 10 THEN <<Digits[n + 1]>>
    ELSE NatToStr(n \div 10) \o <<Digits[(n % 10) + 1]>>

KwSelect ==
    <<"s","e","l","e","c","t">>

KwLimit ==
    <<"l","i","m","i","t">>

LimitClause ==
    <<" ","L","I","M","I","T"," ">>

(***************************************************************************)
(* The filesystem the process runs in.  A path is the sequence of its      *)
(* components from "/"; the working directory is /w/r and the user's home  *)
(* is /w.  A component holding a NUL character is written "\\0".           *)
(***************************************************************************)
ROOT_DIR == <<"w", "r">>

HomeDir == <<"w">>

NulName == "\\0"

Dir == [kind |-> "dir"]

FsNodes ==
    { <<>>, <<"etc">>, <<"etc", "f">>, <<"w">>, <<"w", "f">>, <<"w", "r">>,
      <<"w", "r", "f">>, <<"w", "r", "d">>, <<"w", "r", "d", "f">>,
      <<"w", "r", "out">>, <<"w", "r", "in">> }

Node(p) ==
    CASE p = <<"etc", "f">> -> [kind |-> "file", readable |-> TRUE, bytes |-> <<114>>]
      [] p = <<"w", "f">> -> [kind |-> "file", readable |-> TRUE, bytes |-> <<115>>]
      [] p = <<"w", "r", "f">> ->
            [kind |-> "file", readable |-> TRUE, bytes |-> <<72, 195, 169, 255, 105>>]
      [] p = <<"w", "r", "d", "f">> ->
            [kind |-> "file", readable |-> FALSE, bytes |-> <<120>>]
      [] p = <<"w", "r", "out">> -> [kind |-> "link", abs |-> TRUE, parts |-> <<"etc">>]
      [] p = <<"w", "r", "in">> -> [kind |-> "link", abs |-> FALSE, parts |-> <<"d">>]
      [] OTHER -> Dir

Exists(p) == p \in FsNodes

IsLink(p) == Exists(p) /\ Node(p).kind = "link"

Pop(p) == IF p = <<>> THEN p ELSE SubSeq(p, 1, Len(p) - 1)

(***************************************************************************)
(* pathlib: expanduser, is_absolute, resolve (non-strict), parents.        *)
(***************************************************************************)
\* Path(path).expanduser(): "~" is the user's home, "~name" for a name with no
\* home raises RuntimeError
ExpandUser(path) ==
    IF path.abs \/ path.parts = <<>> THEN [ok |-> TRUE, path |-> path]
    ELSE IF path.parts[1] = "~"
    THEN [ok |-> TRUE, path |-> [abs |-> TRUE, parts |-> HomeDir \o Tail(path.parts)]]
    ELSE IF path.parts[1] = "~zed" THEN [ok |-> FALSE]
    ELSE [ok |-> TRUE, path |-> path]

\* (p if p.is_absolute() else (ROOT_DIR / p))
Anchor(path) == IF path.abs THEN path.parts ELSE ROOT_DIR \o path.parts

\* realpath: components left to right; ".." drops the last component of what is
\* resolved so far; a symbolic link is replaced by its target; a component that
\* does not exist is kept as written
RECURSIVE RealPath(_, _)
RealPath(acc, rest) ==
    IF rest = <<>> THEN acc
    ELSE IF Head(rest) = ".." THEN RealPath(Pop(acc), Tail(rest))
    ELSE IF IsLink(Append(acc, Head(rest)))
    THEN LET l == Node(Append(acc, Head(rest)))
         IN  RealPath(IF l.abs THEN <<>> ELSE acc, l.parts \o Tail(rest))
    ELSE RealPath(Append(acc, Head(rest)), Tail(rest))

\* .resolve(): a NUL character in the path makes the lookup raise ValueError
Resolve(parts) ==
    IF NulName \in Range(parts) THEN [ok |-> FALSE]
    ELSE [ok |-> TRUE, p |-> RealPath(<<>>, parts)]

Parents(p) == {SubSeq(p, 1, k) : k \in 0..(Len(p) - 1)}

(***************************************************************************)
(* _safe_path.                                                             *)
(***************************************************************************)
Raised(e) == [kind |-> "raised", error |-> e]

None == [kind |-> "none"]

\* _safe_path with the containment test made on the unresolved path
SafePathUnresolved(path) ==
    LET x == ExpandUser(path)
    IN  IF ~x.ok THEN Raised("RuntimeError")
        ELSE IF NulName \in Range(Anchor(x.path)) THEN None
        ELSE IF ROOT_DIR \in Parents(Anchor(x.path)) \/ Anchor(x.path) = ROOT_DIR
        THEN [kind |-> "path", p |-> RealPath(<<>>, Anchor(x.path))]
        ELSE None

SafePath(path) ==
    LET x == ExpandUser(path)
    IN  IF ~x.ok THEN Raised("RuntimeError")
        ELSE LET r == Resolve(Anchor(x.path))
             IN  IF ~r.ok THEN None
                 ELSE IF ROOT_DIR \in Parents(r.p) \/ r.p = ROOT_DIR
                 THEN [kind |-> "path", p |-> r.p]
                 ELSE None

(***************************************************************************)
(* list_dir and read_file.                                                 *)
(***************************************************************************)
IsDir(p) == Exists(p) /\ Node(p).kind = "dir"

IsFile(p) == Exists(p) /\ Node(p).kind = "file"

Children(p) == {c \in FsNodes : Len(c) = Len(p) + 1 /\ Pop(c) = p}

\* f"{child.name}{'/' if child.is_dir() else ''}": is_dir follows a link
EntryName(c) == c[Len(c)] \o (IF IsDir(RealPath(<<>>, c)) THEN "/" ELSE "")

\* iterdir yields the children in an order the operating system chooses
Listings(p) ==
    LET names == {EntryName(c) : c \in Children(p)}
        n == Cardinality(names)
    IN  {s \in [1..n -> names] : \A i, j \in 1..n : s[i] = s[j] => i = j}

Value(v) == [kind |-> "value", v |-> v]

NoResp == [op |-> "none"]

ListDir(path) ==
    /\ pc = "serving"
    /\ resp = NoResp
    /\ LET p == SafePath(path)
       IN  \E out \in (IF p.kind = "raised" THEN {p}
                       ELSE IF p.kind = "none" \/ ~Exists(p.p) \/ ~IsDir(p.p)
                       THEN {Value(<<>>)}
                       ELSE {Value(s) : s \in Listings(p.p)}) :
               resp' = [op |-> "list_dir", path |-> path, safe |-> p, out |-> out]
    /\ UNCHANGED <<store, pc, txn, initRuns, tasks>>

DefaultMaxBytes == 2000

\* bytes.decode('utf-8', errors='replace') for one- and two-byte forms: every
\* byte that starts no well-formed sequence becomes U+FFFD
RECURSIVE Decode(_)
Decode(b) ==
    IF b = <<>> THEN <<>>
    ELSE IF b[1] < 128 THEN <<b[1]>> \o Decode(Tail(b))
    ELSE IF b[1] >= 194 /\ b[1] <= 223 /\ Len(b) >= 2 /\ b[2] >= 128 /\ b[2] <= 191
    THEN <<(b[1] - 192) * 64 + (b[2] - 128)>> \o Decode(Tail(Tail(b)))
    ELSE <<65533>> \o Decode(Tail(b))

\* text[:stop]: a negative stop counts from the end
SliceTo(text, stop) ==
    LET n == Len(text)
        k == IF stop < 0 THEN (IF n + stop < 0 THEN 0 ELSE n + stop)
             ELSE (IF stop < n THEN stop ELSE n)
    IN  SubSeq(text, 1, k)

MaxBytesOf(arg) == IF arg = NoArg THEN DefaultMaxBytes ELSE arg[1]

ReadFile(path, max_bytes) ==
    /\ pc = "serving"
    /\ resp = NoResp
    /\ LET p == SafePath(path)
           out == IF p.kind = "raised" THEN p
                  ELSE IF p.kind = "none" \/ ~Exists(p.p) \/ ~IsFile(p.p)
                  THEN Value(<<>>)
                  ELSE IF ~Node(p.p).readable
                  THEN [kind |-> "error_text", error |-> "PermissionError"]
                  ELSE Value(SliceTo(Decode(Node(p.p).bytes), MaxBytesOf(max_bytes)))
       IN  resp' = [op |-> "read_file", path |-> path, max_bytes |-> max_bytes,
                    safe |-> p, out |-> out]
    /\ UNCHANGED <<store, pc, txn, initRuns, tasks>>

\* the handler's return value (or its exception) leaves with the transport
Respond ==
    /\ resp # NoResp
    /\ resp' = NoResp
    /\ UNCHANGED <<store, pc, txn, initRuns, tasks>>

(***************************************************************************)
(* The backing store.  file: the database file exists; table: the users    *)
(* table exists; rows: the committed rows of users, in rowid order.        *)
(***************************************************************************)
NoStore == [file |-> FALSE, table |-> FALSE, rows |-> <<>>]

\* the users table with its third column named message_count
UsersColumnsMessageCount == <<"id", "name", "message_count">>

UsersColumns == <<"id", "name", "messages">>

SeedUsers == << <<"alice", 5>>, <<"bob", 3>>, <<"carol", 12>>, <<"dave", 0>> >>

\* INSERT INTO users (name, messages): id is INTEGER PRIMARY KEY, assigned as
\* the largest rowid so far plus one.
RECURSIVE InsertUsers(_, _)
InsertUsers(rows, new) ==
    IF new = <<>> THEN rows
    ELSE InsertUsers(Append(rows, <<Len(rows) + 1>> \o Head(new)), Tail(new))

(***************************************************************************)
(* The store's execution of one statement (db.execute, cursor.fetchall):   *)
(* the part of SQL the handler's inputs use.  Line comments run to the end *)
(* of the line; keywords are case-insensitive.                             *)
(***************************************************************************)
IsWordChar(c) == c \in (Range(Uppers) \cup Range(Lowers) \cup Range(Digits) \cup {"_"})

RECURSIVE WordLen(_)
WordLen(s) ==
    IF s # <<>> /\ IsWordChar(Head(s)) THEN 1 + WordLen(Tail(s)) ELSE 0

\* the length of a quoted literal starting at s[1] = "'", 0 when unterminated
QuoteLen(s) ==
    IF \E k \in 2..Len(s) : s[k] = "'"
    THEN CHOOSE k \in 2..Len(s) : s[k] = "'" /\ \A j \in 2..(k - 1) : s[j] # "'"
    ELSE 0

RECURSIVE SkipLine(_)
SkipLine(s) ==
    IF s = <<>> \/ Head(s) = "\n" THEN s ELSE SkipLine(Tail(s))

RECURSIVE Lex(_)
Lex(s) ==
    IF s = <<>> THEN <<>>
    ELSE IF IsSpace(Head(s)) THEN Lex(Tail(s))
    ELSE IF StartsWith(s, <<"-", "-">>) THEN Lex(SkipLine(s))
    ELSE IF Head(s) = "'" THEN
        IF QuoteLen(s) = 0 THEN << [t |-> "bad", v |-> s] >>
        ELSE << [t |-> "lit", v |-> SubSeq(s, 1, QuoteLen(s))] >>
             \o Lex(SubSeq(s, QuoteLen(s) + 1, Len(s)))
    ELSE IF IsWordChar(Head(s)) THEN
        << [t |-> "word", v |-> Lower(SubSeq(s, 1, WordLen(s)))] >>
        \o Lex(SubSeq(s, WordLen(s) + 1, Len(s)))
    ELSE << [t |-> "sym", v |-> <<Head(s)>>] >> \o Lex(Tail(s))

Word(w) == [t |-> "word", v |-> w]

IsNumber(tok) == tok.t = "word" /\ \A i \in DOMAIN tok.v : tok.v[i] \in Range(Digits)

DigitValue(c) == (CHOOSE i \in DOMAIN Digits : Digits[i] = c) - 1

RECURSIVE StrToNat(_)
StrToNat(s) ==
    IF s = <<>> THEN 0
    ELSE 10 * StrToNat(SubSeq(s, 1, Len(s) - 1)) + DigitValue(s[Len(s)])

\* the text of a sequence of characters as one string (a column name)
RECURSIVE Join(_)
Join(s) == IF s = <<>> THEN "" ELSE Head(s) \o Join(Tail(s))

\* SELECT item FROM users [LIMIT n] [;]
ParseSelect(toks) ==
    LET n == Len(toks)
        body == IF n > 0 /\ toks[n] = [t |-> "sym", v |-> <<";">>] THEN n - 1 ELSE n
        head == /\ body >= 4
                /\ toks[1] = Word(KwSelect)
                /\ toks[2].t \in {"word", "lit"} \/ toks[2] = [t |-> "sym", v |-> <<"*">>]
                /\ toks[3] = Word(<<"f","r","o","m">>)
                /\ toks[4] = Word(<<"u","s","e","r","s">>)
    IN  IF head /\ body = 4
        THEN [ok |-> TRUE, item |-> toks[2], limited |-> FALSE, limit |-> 0]
        ELSE IF head /\ body = 6 /\ toks[5] = Word(KwLimit) /\ IsNumber(toks[6])
        THEN [ok |-> TRUE, item |-> toks[2], limited |-> TRUE, limit |-> StrToNat(toks[6].v)]
        ELSE [ok |-> FALSE]

ColumnIndex(name) ==
    IF \E i \in DOMAIN UsersColumns : UsersColumns[i] = name
    THEN CHOOSE i \in DOMAIN UsersColumns : UsersColumns[i] = name
    ELSE 0

Take(s, n) == SubSeq(s, 1, IF n < Len(s) THEN n ELSE Len(s))

\* what the cursor yields: the result's column names and its rows, or the
\* store's own error
Execute(st, text) ==
    LET q == ParseSelect(Lex(text))
    IN  IF ~q.ok THEN [ok |-> FALSE, error |-> "syntax error"]
        ELSE IF ~st.table THEN [ok |-> FALSE, error |-> "no such table"]
        ELSE LET all == st.rows
                 kept == IF q.limited THEN Take(all, q.limit) ELSE all
             IN  IF q.item.t = "sym"
                 THEN [ok |-> TRUE, keys |-> UsersColumns, rows |-> kept]
                 ELSE IF q.item.t = "lit"
                 THEN [ok |-> TRUE, keys |-> <<Join(q.item.v)>>,
                       rows |-> [i \in DOMAIN kept |->
                                   <<Join(SubSeq(q.item.v, 2, Len(q.item.v) - 1))>>]]
                 ELSE IF ColumnIndex(Join(q.item.v)) = 0
                 THEN [ok |-> FALSE, error |-> "no such column"]
                 ELSE [ok |-> TRUE, keys |-> <<Join(q.item.v)>>,
                       rows |-> [i \in DOMAIN kept |->
                                   <<kept[i][ColumnIndex(Join(q.item.v))]>>]]

(***************************************************************************)
(* query_db.                                                               *)
(***************************************************************************)
DefaultLimit == 100

LimitMax == 1000

\* the statement check without lower()
QueryAcceptsCaseSensitive(sql) == StartsWith(sql, KwSelect)

\* sql.lower().startswith('select') on the stripped statement
QueryAccepts(sql) == StartsWith(Lower(sql), KwSelect)

\* the limit with "limit < 0" for "limit <= 0"
EffectiveLimitOffByOne(arg) ==
    LET limit == IF arg = NoArg THEN DefaultLimit ELSE arg[1]
    IN  IF limit < 0 \/ limit > LimitMax THEN DefaultLimit ELSE limit

\* the limit clamped into 1..1000 instead of replaced by the default
EffectiveLimitClamped(arg) ==
    LET limit == IF arg = NoArg THEN DefaultLimit ELSE arg[1]
    IN  IF limit <= 0 THEN 1 ELSE IF limit > LimitMax THEN LimitMax ELSE limit

\* if limit <= 0 or limit > 1000: limit = 100
EffectiveLimit(arg) ==
    LET limit == IF arg = NoArg THEN DefaultLimit ELSE arg[1]
    IN  IF limit <= 0 \/ limit > LimitMax THEN DefaultLimit ELSE limit

\* if 'limit' not in sql.lower(): sql = sql.rstrip(';') + f' LIMIT {limit}'
QueryText(sql, limit) ==
    IF ~Contains(Lower(sql), KwLimit)
    THEN RStripSemis(sql) \o LimitClause \o NatToStr(limit)
    ELSE sql

\* cols = keys of the first row, if any; data = [[r[c] for c in cols] for r in rows]
ResultColumns(res) == IF res.rows # <<>> THEN res.keys ELSE <<>>

ResultData(res) ==
    LET cols == ResultColumns(res)
    IN  [i \in DOMAIN res.rows |-> [c \in DOMAIN cols |-> res.rows[i][c]]]

QueryResult(res) == [columns |-> ResultColumns(res), rows |-> ResultData(res)]

Idle == [pc |-> "idle"]

\* query_db up to the connection: the statement check, the limit, connect
QueryCall(i, sql, limit) ==
    /\ pc = "serving"
    /\ tasks[i] = Idle
    /\ IF ~QueryAccepts(Strip(sql))
       THEN /\ tasks' = [tasks EXCEPT ![i] =
                    [pc |-> "raised", argsql |-> sql, arglimit |-> limit,
                     conn |-> FALSE, error |-> "ValueError"]]
            /\ store' = store
       ELSE /\ tasks' = [tasks EXCEPT ![i] =
                    [pc |-> "connected", argsql |-> sql, arglimit |-> limit,
                     conn |-> TRUE, sql |-> Strip(sql),
                     limit |-> EffectiveLimit(limit)]]
            /\ store' = [store EXCEPT !.file = TRUE]
    /\ UNCHANGED <<pc, txn, initRuns, resp>>

\* query_db from the connection on: the limit clause, execute, fetchall, the result
QueryExec(i) ==
    /\ pc = "serving"
    /\ tasks[i].pc = "connected"
    /\ LET text == QueryText(tasks[i].sql, tasks[i].limit)
           res == Execute(store, text)
       IN  tasks' = [tasks EXCEPT ![i] =
                IF res.ok
                THEN [pc |-> "done", argsql |-> tasks[i].argsql,
                      arglimit |-> tasks[i].arglimit, conn |-> TRUE,
                      sql |-> tasks[i].sql, limit |-> tasks[i].limit,
                      executed |-> text, result |-> QueryResult(res)]
                ELSE [pc |-> "failed", argsql |-> tasks[i].argsql,
                      arglimit |-> tasks[i].arglimit, conn |-> TRUE,
                      sql |-> tasks[i].sql, limit |-> tasks[i].limit,
                      executed |-> text, error |-> res.error]]
    /\ UNCHANGED <<store, pc, txn, initRuns, resp>>

\* the response (or the error) leaves with the transport
QueryReturn(i) ==
    /\ tasks[i].pc \in {"raised", "done", "failed"}
    /\ tasks' = [tasks EXCEPT ![i] = Idle]
    /\ UNCHANGED <<store, pc, txn, initRuns, resp>>

(***************************************************************************)
(* _ensure_db and main.                                                    *)
(***************************************************************************)
\* asyncio.run(main())
Start ==
    /\ pc = "down"
    /\ pc' = "ensure"
    /\ initRuns' = 0
    /\ UNCHANGED <<store, txn, tasks, resp>>

\* if DB_PATH.exists(): return -- and main goes on to serve_http
EnsureDbCheck ==
    /\ pc = "ensure"
    /\ initRuns' = initRuns + 1
    /\ pc' = IF store.file THEN "serving" ELSE "connect"
    /\ UNCHANGED <<store, txn, tasks, resp>>

\* aiosqlite.connect(DB_PATH): opening creates the file
EnsureDbConnect ==
    /\ pc = "connect"
    /\ store' = [store EXCEPT !.file = TRUE]
    /\ pc' = "create"
    /\ UNCHANGED <<txn, initRuns, tasks, resp>>

\* CREATE TABLE users: a schema statement, committed as it runs
EnsureDbCreate ==
    /\ pc = "create"
    /\ store' = [store EXCEPT !.table = TRUE]
    /\ pc' = "insert"
    /\ UNCHANGED <<txn, initRuns, tasks, resp>>

\* executemany INSERT: the rows are in the connection's open transaction
EnsureDbInsert ==
    /\ pc = "insert"
    /\ txn' = SeedUsers
    /\ pc' = "commit"
    /\ UNCHANGED <<store, initRuns, tasks, resp>>

\* db.commit(), the connection closes, main goes on to serve_http
EnsureDbCommit ==
    /\ pc = "commit"
    /\ store' = [store EXCEPT !.rows = InsertUsers(store.rows, txn)]
    /\ txn' = <<>>
    /\ pc' = "serving"
    /\ UNCHANGED <<initRuns, tasks, resp>>

\* KeyboardInterrupt (or the process is killed): the run ends where it is, an
\* open transaction is rolled back, the invocations in flight are gone
Interrupt ==
    /\ pc # "down"
    /\ pc' = "down"
    /\ txn' = <<>>
    /\ tasks' = [i \in Slots |-> Idle]
    /\ resp' = NoResp
    /\ UNCHANGED <<store, initRuns>>

(***************************************************************************)
(* The calls the model makes.                                              *)
(***************************************************************************)
SqlSelectAll ==
    <<"S","E","L","E","C","T"," ","*"," ","F","R","O","M"," ","u","s","e","r","s">>

SqlPadded ==
    <<" "," ","s","e","l","e","c","t"," ","*"," ","f","r","o","m"," ","u","s","e","r","s",";",";"," ">>

SqlDelete ==
    <<"D","E","L","E","T","E"," ","F","R","O","M"," ","u","s","e","r","s">>

SqlWithLimit ==
    <<"S","E","L","E","C","T"," ","*"," ","F","R","O","M"," ","u","s","e","r","s"," ","L","I","M","I","T"," ","3",";">>

SqlLiteral ==
    <<"S","E","L","E","C","T"," ","'","l","i","m","i","t","_","r","e","a","c","h","e","d","'"," ","F","R","O","M"," ","u","s","e","r","s">>

SqlName ==
    <<"S","e","l","e","c","t"," ","n","a","m","e"," ","F","r","o","m"," ","u","s","e","r","s">>

SqlSelectx ==
    <<"s","e","l","e","c","t","x"," ","*"," ","f","r","o","m"," ","u","s","e","r","s">>

SqlComment ==
    <<"S","E","L","E","C","T"," ","*"," ","F","R","O","M"," ","u","s","e","r","s"," ","-","-"," ","x">>

SqlEmpty == <<>>

Sqls ==
    {SqlSelectAll, SqlPadded, SqlDelete, SqlWithLimit, SqlLiteral, SqlName,
     SqlSelectx, SqlComment, SqlEmpty}

Limits == {NoArg} \cup {<<n>> : n \in {-5, 0, 1, 2, 3, 100, 1000, 1001, 2000}}

PathNames == {"..", "w", "r", "d", "f", "etc", "out", "in", "~", "~zed", NulName}

Paths ==
    {[abs |-> a, parts |-> q] :
        a \in BOOLEAN, q \in UNION {[1..n -> PathNames] : n \in 0..MaxPathLen}}

MaxBytes == {NoArg} \cup {<<n>> : n \in {-1, 0, 2, 4, 5}}

Rel(parts) == [abs |-> FALSE, parts |-> parts]

Abs(parts) == [abs |-> TRUE, parts |-> parts]

\* the calls made of the running server
ServedSqls == {SqlSelectAll, SqlDelete}

ServedLimits == {NoArg, <<0>>, <<2>>, <<100>>, <<2000>>}

ServedPaths == {Rel(<<"d">>), Rel(<<"f">>)}

ServedMaxBytes == {NoArg}

(***************************************************************************)
(* The server: any number of runs, each from asyncio.run(main()) to its    *)
(* interruption, over the store the earlier runs left.                     *)
(***************************************************************************)
Init ==
    /\ store = NoStore
    /\ pc = "down"
    /\ txn = <<>>
    /\ initRuns = 0
    /\ tasks = [i \in Slots |-> Idle]
    /\ resp = NoResp

Next ==
    \/ Start
    \/ EnsureDbCheck
    \/ EnsureDbConnect
    \/ EnsureDbCreate
    \/ EnsureDbInsert
    \/ EnsureDbCommit
    \/ Interrupt
    \/ \E i \in Slots, sql \in ServedSqls, limit \in ServedLimits : QueryCall(i, sql, limit)
    \/ \E i \in Slots : QueryExec(i)
    \/ \E i \in Slots : QueryReturn(i)
    \/ resp = NoResp /\ \E path \in ServedPaths : ListDir(path)
    \/ resp = NoResp /\ \E path \in ServedPaths, max_bytes \in ServedMaxBytes :
            ReadFile(path, max_bytes)
    \/ Respond

Spec == Init /\ [][Next]_vars

(***************************************************************************)
(* query_db alone: one invocation at a time, of a serving run, over each   *)
(* store a run can be serving on.                                          *)
(***************************************************************************)
Seeded == [file |-> TRUE, table |-> TRUE, rows |-> InsertUsers(<<>>, SeedUsers)]

ServingStores ==
    {[file |-> TRUE, table |-> FALSE, rows |-> <<>>],
     [file |-> TRUE, table |-> TRUE, rows |-> <<>>],
     Seeded}

InitQuery ==
    /\ store \in ServingStores
    /\ pc = "serving"
    /\ txn = <<>>
    /\ initRuns = 1
    /\ tasks = [i \in Slots |-> Idle]
    /\ resp = NoResp

NextQuery ==
    \/ \E sql \in Sqls, limit \in Limits : QueryCall(1, sql, limit)
    \/ QueryExec(1)
    \/ QueryReturn(1)

SpecQuery == InitQuery /\ [][NextQuery]_vars

(***************************************************************************)
(* list_dir and read_file alone, of a serving run.                         *)
(***************************************************************************)
InitFs ==
    /\ store = Seeded
    /\ pc = "serving"
    /\ txn = <<>>
    /\ initRuns = 1
    /\ tasks = [i \in Slots |-> Idle]
    /\ resp = NoResp

NextFs ==
    \/ resp = NoResp /\ \E path \in Paths : ListDir(path)
    \/ resp = NoResp /\ \E path \in Paths, max_bytes \in MaxBytes : ReadFile(path, max_bytes)
    \/ Respond

SpecFs == InitFs /\ [][NextFs]_vars

(***************************************************************************)
(* Properties.                                                             *)
(***************************************************************************)
InsideRoot(p) ==
    /\ Len(p) >= Len(ROOT_DIR)
    /\ \A i \in 1..Len(ROOT_DIR) : p[i] = ROOT_DIR[i]

\* the root and the files and directories that exist under it
Descendants == {n \in FsNodes : InsideRoot(n) /\ Node(n).kind # "link"}

Accepted(p) == [kind |-> "path", p |-> p]

\* C1: _safe_path returns a path only if the path, after home expansion,
\* anchoring under the root and resolution of links and ".." segments, is the
\* root or below it, and then returns that resolved path; every path resolving
\* outside the root is rejected with None (/etc/f, ../f, a link leading out);
\* the root and every existing descendant are accepted, by absolute and by
\* relative name.
C1_SafePathConfines ==
    resp.op # "none" =>
        /\ resp.safe.kind = "path" =>
              /\ InsideRoot(resp.safe.p)
              /\ ExpandUser(resp.path).ok
              /\ Resolve(Anchor(ExpandUser(resp.path).path)) = [ok |-> TRUE, p |-> resp.safe.p]
        /\ ExpandUser(resp.path).ok =>
              LET r == Resolve(Anchor(ExpandUser(resp.path).path))
              IN  /\ (r.ok /\ ~InsideRoot(r.p)) => resp.safe = None
                  /\ (r.ok /\ InsideRoot(r.p)) => resp.safe = Accepted(r.p)
        /\ resp.path \in {Abs(<<"etc", "f">>), Abs(<<"w">>), Rel(<<"..", "f">>),
                          Rel(<<"..", "..", "etc">>), Rel(<<"out">>), Rel(<<"out", "f">>),
                          Rel(<<"d", "..", "..">>)}
              => resp.safe = None
        /\ \A n \in Descendants :
              resp.path \in {Abs(n), Rel(SubSeq(n, Len(ROOT_DIR) + 1, Len(n)))}
                  => resp.safe = Accepted(n)
        /\ resp.path = Rel(<<"in">>) => resp.safe = Accepted(<<"w", "r", "d">>)

C1_Witness ==
    /\ resp.op = "read_file"
    /\ resp.path = Rel(<<"in", "..", "..">>)
    /\ resp.safe = None

\* C3 (as claimed): list_dir and read_file never raise, whatever the path:
\* they return the empty list / the empty string when the path is rejected by
\* the resolver, fails to resolve, is missing or is of the wrong kind, and
\* read_file returns an error-describing string when the read itself fails.
C3_FsHandlersNeverRaise ==
    resp.op \in {"list_dir", "read_file"} =>
        /\ resp.out.kind # "raised"
        /\ resp.safe.kind # "path" => resp.out = Value(<<>>)
        /\ (resp.safe.kind = "path" /\ ~Exists(resp.safe.p)) => resp.out = Value(<<>>)
        /\ (resp.op = "list_dir" /\ resp.safe.kind = "path" /\ ~IsDir(resp.safe.p))
              => resp.out = Value(<<>>)
        /\ (resp.op = "read_file" /\ resp.safe.kind = "path" /\ ~IsFile(resp.safe.p))
              => resp.out = Value(<<>>)
        /\ (resp.op = "read_file" /\ resp.safe.kind = "path" /\ IsFile(resp.safe.p)
              /\ ~Node(resp.safe.p).readable) => resp.out.kind = "error_text"

IsPrefix(s, t) == Len(s) <= Len(t) /\ SubSeq(t, 1, Len(s)) = s

\* C9 (as claimed): for an existing (readable) regular file inside the root and
\* every integer max_bytes, read_file returns a prefix of the decoded text of at
\* most max(max_bytes, 0) characters, which is exactly the first max_bytes
\* characters when the text is longer than max_bytes.
C9_ReadFileTruncates ==
    (/\ resp.op = "read_file"
     /\ resp.safe.kind = "path"
     /\ IsFile(resp.safe.p)
     /\ Node(resp.safe.p).readable) =>
        LET text == Decode(Node(resp.safe.p).bytes)
            n == IF resp.max_bytes = NoArg THEN 2000 ELSE resp.max_bytes[1]
        IN  /\ resp.out.kind = "value"
            /\ IsPrefix(resp.out.v, text)
            /\ Len(resp.out.v) <= (IF n > 0 THEN n ELSE 0)
            /\ Len(text) > n => resp.out.v = SubSeq(text, 1, n)

Finished(i) == tasks[i].pc \in {"raised", "done", "failed"}

Executed(i) == tasks[i].pc \in {"done", "failed"}

\* the statement's first token, after leading whitespace, is the word select
BeginsWithSelectToken(sql) ==
    Lower(SubSeq(LStrip(sql), 1, WordLen(LStrip(sql)))) = <<"s","e","l","e","c","t">>

\* after leading whitespace the statement's next six characters spell select
HasSelectPrefix(sql) ==
    \E k \in 0..Len(sql) :
        /\ \A j \in 1..k : IsSpace(sql[j])
        /\ Len(sql) >= k + 6
        /\ \A j \in 1..6 : LowerChar(sql[k + j]) = <<"s","e","l","e","c","t">>[j]

\* C2 (as claimed): query_db raises, without opening the store, exactly when
\* the statement does not begin with the case-insensitive token select; every
\* other call, whatever its limit, is passed on to the store.
C2_RejectsIffNotSelectToken ==
    \A i \in Slots : tasks[i] # Idle =>
        /\ tasks[i].pc = "raised" <=> ~BeginsWithSelectToken(tasks[i].argsql)
        /\ tasks[i].pc = "raised" <=> ~tasks[i].conn

\* C2 (amended): query_db raises, without opening the store, exactly when the
\* statement, with leading whitespace skipped and letters lower-cased, does not
\* start with the characters select; every other call, whatever its limit, is
\* passed on to the store (so "selectx ..." reaches the store).
C2_RejectsIffNoSelectPrefix ==
    \A i \in Slots : tasks[i] # Idle =>
        /\ tasks[i].pc = "raised" <=> ~HasSelectPrefix(tasks[i].argsql)
        /\ tasks[i].pc = "raised" <=> ~tasks[i].conn
        /\ tasks[i].pc = "raised" => tasks[i].error = "ValueError"

C2_Witness ==
    \E i \in Slots :
        /\ tasks[i].pc = "failed"
        /\ tasks[i].argsql = SqlSelectx
        /\ tasks[i].conn
        /\ tasks[i].error = "syntax error"

EndsWith(s, suffix) ==
    /\ Len(s) >= Len(suffix)
    /\ SubSeq(s, Len(s) - Len(suffix) + 1, Len(s)) = suffix

ClampedLimit(arg) ==
    IF arg = NoArg THEN 100
    ELSE IF arg[1] < 1 THEN 1 ELSE IF arg[1] > 1000 THEN 1000 ELSE arg[1]

InRangeOrDefault(arg) ==
    IF arg = NoArg THEN 100
    ELSE IF arg[1] >= 1 /\ arg[1] <= 1000 THEN arg[1] ELSE 100

LimitAbsent(sql) == ~Contains(Lower(sql), <<"l","i","m","i","t">>)

\* C4 (as claimed): the effective limit is the argument clamped into 1..1000
\* (below 1 becomes 1, above 1000 becomes 1000), 100 when omitted, and is the
\* limit of the clause appended.
C4_LimitClamped ==
    \A i \in Slots : tasks[i].pc \in {"connected", "done", "failed"} =>
        /\ tasks[i].limit = ClampedLimit(tasks[i].arglimit)
        /\ (Executed(i) /\ LimitAbsent(tasks[i].argsql)) =>
              EndsWith(tasks[i].executed,
                       <<" ","L","I","M","I","T"," ">> \o NatToStr(ClampedLimit(tasks[i].arglimit)))

\* C4 (amended): the effective limit is the argument itself when it lies in
\* 1..1000, and 100 when it is omitted or lies outside 1..1000 (below 1 or above
\* 1000); it is the limit of the clause appended.
C4_LimitInRangeOrDefault ==
    \A i \in Slots : tasks[i].pc \in {"connected", "done", "failed"} =>
        /\ tasks[i].limit = InRangeOrDefault(tasks[i].arglimit)
        /\ (Executed(i) /\ LimitAbsent(tasks[i].argsql)) =>
              EndsWith(tasks[i].executed,
                       <<" ","L","I","M","I","T"," ">> \o NatToStr(InRangeOrDefault(tasks[i].arglimit)))

C4_Witness ==
    \E i \in Slots :
        /\ tasks[i].pc = "done"
        /\ tasks[i].arglimit = <<2000>>
        /\ tasks[i].argsql = SqlSelectAll
        /\ tasks[i].limit = 100
        /\ EndsWith(tasks[i].executed, <<" ","L","I","M","I","T"," ","1","0","0">>)

OutOfRange(arg) == arg # NoArg /\ (arg[1] <= 0 \/ arg[1] > 1000)

SameOutcome(i, j) ==
    /\ tasks[i].pc = tasks[j].pc
    /\ tasks[i].conn = tasks[j].conn
    /\ Executed(i) => tasks[i].executed = tasks[j].executed
    /\ tasks[i].pc = "done" => tasks[i].result = tasks[j].result
    /\ tasks[i].pc \in {"raised", "failed"} => tasks[i].error = tasks[j].error

\* C5: a query_db call with an out-of-range limit (<= 0 or > 1000) ends as the
\* call of the same statement with limit=100 does: the same statement text is
\* executed and the same result (or the same error) comes back.
C5_OutOfRangeBehavesAsHundred ==
    \A i, j \in Slots :
        (/\ Finished(i) /\ Finished(j)
         /\ tasks[i].argsql = tasks[j].argsql
         /\ OutOfRange(tasks[i].arglimit)
         /\ tasks[j].arglimit = <<100>>) => SameOutcome(i, j)

C5_Witness ==
    \E i, j \in Slots :
        /\ tasks[i].pc = "done" /\ tasks[j].pc = "done"
        /\ tasks[i].argsql = SqlSelectAll /\ tasks[j].argsql = SqlSelectAll
        /\ tasks[i].arglimit = <<2000>> /\ tasks[j].arglimit = <<100>>
        /\ Len(tasks[i].result.rows) = 4
        /\ SameOutcome(i, j)

\* C6 (as claimed): the clause " LIMIT n", n the effective limit, is appended
\* to the statement less its trailing semicolons exactly when the lower-cased
\* statement does not contain limit; otherwise the statement is executed
\* unchanged; and whenever limit is absent the result has at most n rows.
C6_LimitAppendedAndBounds ==
    \A i \in Slots : Executed(i) =>
        /\ LimitAbsent(tasks[i].sql) =>
              tasks[i].executed =
                  RStripSemis(tasks[i].sql) \o <<" ","L","I","M","I","T"," ">>
                      \o NatToStr(tasks[i].limit)
        /\ ~LimitAbsent(tasks[i].sql) => tasks[i].executed = tasks[i].sql
        /\ (LimitAbsent(tasks[i].sql) /\ tasks[i].pc = "done") =>
              Len(tasks[i].result.rows) <= tasks[i].limit

SeedRows ==
    << <<1, "alice", 5>>, <<2, "bob", 3>>, <<3, "carol", 12>>, <<4, "dave", 0>> >>

\* C7 (as claimed): once a startup's initialization has completed, however the
\* earlier startups ended, the users table exists and holds exactly the four
\* seed rows, each once.
C7_SeededOnceAfterInit ==
    pc = "serving" => (store.file /\ store.table /\ store.rows = SeedRows)

\* the seeding has been committed to the store
SeedCommitted == store.table /\ store.rows # <<>>

RowsAligned(i) ==
    \A k \in DOMAIN tasks[i].result.rows :
        Len(tasks[i].result.rows[k]) = Len(tasks[i].result.columns)

C10_InitOnceBeforeServing ==
    /\ initRuns <= 1
    /\ \A i \in Slots : tasks[i] # Idle =>
          /\ pc = "serving"
          /\ initRuns = 1
          /\ txn = <<>>
          /\ tasks[i].conn => (store.table /\ store.rows = SeedRows)

\* a run serves only on a store of ServingStores
ServesOnServingStores == pc = "serving" => store \in ServingStores

====
